---- MODULE Spec2Model ----
(***************************************************************************)
(* State-machine model of the PowerPoint viewer plugin:                    *)
(*   - the conversion cache pipeline of src/src/converter.ts               *)
(*     (convertPptxToPdf, tryLibreOfficeConversion, cleanupOldCache,       *)
(*      clearCache, getCacheStats), and                                    *)
(*   - the part of src/src/PptxView.ts that calls it                       *)
(*     (onOpen, onLoadFile/loadPptxFile, loadPdf, cleanup).                *)
(*                                                                         *)
(* convertPptxToPdf is an exported function.  Spec and SpecRace model it   *)
(* with any caller (Call); SpecView models it called by a view.            *)
(*                                                                         *)
(* JavaScript runs one task at a time: a handler runs from its start, or   *)
(* from the completion of the promise it awaits, up to its next await of   *)
(* an external operation.  Each such run is one action here.  The external *)
(* tool (LibreOffice) is a separate process: it writes its output file at  *)
(* some moment while the exec that started it is pending (ToolWrite), and  *)
(* every exec ends by resolving or rejecting.                              *)
(***************************************************************************)
EXTENDS Integers, Sequences, FiniteSets, TLC

VARIABLES
  platform,       \* process.platform
  now,            \* Date.now(), in milliseconds
  src,            \* the vault: source path -> file bytes, or NoFile
  dirExists,      \* fs.existsSync(CACHE_DIR)
  cache,          \* the files of CACHE_DIR: file name -> [of, by, w, mtime]
  lpc,            \* per load: where loadPptxFile/convertPptxToPdf is suspended
  lview,          \* per load: the view whose loadPptxFile it is, or NoView
  lpath,          \* per load: pptxPath
  lbytes,         \* per load: fileBuffer read by getFileHash
  lhash,          \* per load: fileHash
  cand,           \* per load: index of loPath in libreOfficePaths
  answered,       \* per load: some loPath of this call answered --version
  wrote,          \* per load: the pending command has written its output
  result,         \* per load: the ConversionResult convertPptxToPdf returned
  promise,        \* per load: state of the promise convertPptxToPdf returned
  layout,         \* per view: createLayout has run (contentContainer set)
  content,        \* per view: what contentContainer shows
  currentSlide,   \* per view
  totalSlides,    \* per view
  zoomLevel,      \* per view, in hundredths
  pdfDoc,         \* per view: the loaded document, or Undefined
  pageCanvases,   \* per view: number of thumbnail canvases
  currentPdfPath, \* per view
  mainCanvas,     \* per view: loadPdf has created a main canvas
  file,           \* per view: the load of this.file, or NoLoad
  thumbs,         \* per view: the slide indices whose thumbnail in
                  \* thumbnailContainer has its click listener
  navRenders,     \* per view: the renderSlide calls of goToSlide and
                  \* applyZoom that are pending, oldest first
  ui,             \* per view: what the interface shows
  unhandled,      \* per view: a promise of the view was rejected with no
                  \* handler attached
  ldata,          \* per load: pdfData read by loadPdf
  thumb,          \* per load: the loop index i of createThumbnails
  converted,      \* history: <<base name, bytes, pdfPath>> of the calls that
                  \* succeeded since the last cleanup or clear
  prior,          \* history, per load, at call time: the paths returned
                  \* before for its key, the bytes its cache hit was made for
  pathOk,         \* history, per load: result.pdfPath existed at the return
  swept           \* history: the last cache maintenance call

vars == <<platform, now, src, dirExists, cache, lpc, lview, lpath, lbytes,
          lhash, cand, answered, wrote, result, promise, layout, content, currentSlide,
          totalSlides, zoomLevel, pdfDoc, pageCanvases, currentPdfPath, mainCanvas,
          file, thumbs, navRenders, ui, unhandled, ldata, thumb, converted, prior,
          pathOk, swept>>

fsVars   == <<src, dirExists, cache>>
convVars == <<lpc, lview, lpath, lbytes, lhash, cand, answered, wrote,
              result, promise, ldata, thumb, prior, pathOk>>
viewVars == <<layout, content, currentSlide, totalSlides, zoomLevel, pdfDoc,
              pageCanvases, currentPdfPath, mainCanvas, file, thumbs, navRenders,
              ui, unhandled>>

\* the part of a view that convertPptxToPdf and its caller leave alone
navVars == <<mainCanvas, thumbs, navRenders, ui, unhandled>>

\* undefined / null: optional strings, paths, byte buffers and messages are
\* sequences, an optional boolean b is <<b>>
Undefined == <<>>

\* what a source path holds when it cannot be read; no byte is negative
NoFile == <<-1>>

\* no cache maintenance call yet
NoSweep == [op |-> "none", youngDeleted |-> FALSE, oldRemains |-> FALSE,
            errored |-> FALSE, left |-> 0, count |-> 0, totalSize |-> 0,
            sweeps |-> 0, daysOld |-> 0, registered |-> FALSE]

\* no earlier success for the key, no cache hit
NoPrior == [paths |-> {}, by |-> Undefined]

\* `24 * 60 * 60 * 1000` of cleanupOldCache
MsPerDay == 24 * 60 * 60 * 1000

----------------------------------------------------------------------------
(* Bounds of the model *)

\* Date.now() advances at most this many times
MaxAdvance == 1

\* the renderSlide calls of goToSlide and applyZoom pending together in a view
MaxRenders == 1

\* the calls of convertPptxToPdf that may be in flight together
Loads == {1, 2}

Views == {"view"}

\* the caller of a direct call of convertPptxToPdf
NoView == "none"

\* this.file of a view with no file loaded
NoLoad == 0

\* Source files of the vault: <<directory, base name, extension>>
Paths == { <<"a", "deck", ".pptx">>, <<"b", "deck", ".ppt">> }

\* File contents, as byte sequences
Contents == { <<80, 1>>, <<80, 2>> }

\* process.platform
Platforms == {"darwin", "win32", "linux"}

\* the step by which Date.now() advances
ElapseMs == 8 * MsPerDay

\* the thresholds cleanupOldCache is called with, in days: the default of
\* its parameter, the age of a file after one advance of the clock, and none
SweepDays == {7, ElapseMs \div MsPerDay, 0}

----------------------------------------------------------------------------
(* Paths and file names *)

\* path.extname(pptxPath)
extname(p) == p[3]

\* path.basename(pptxPath, ext)
basename(p) == p[2]

\* crypto md5 of the file bytes.  MD5 itself is not computable here; it is
\* modelled by a positional digest of all the bytes, which like MD5 depends
\* on every byte and, on inputs of this size, has no collision.
RECURSIVE Digest(_, _)
Digest(bytes, acc) ==
  IF bytes = <<>> THEN acc
  ELSE Digest(Tail(bytes), acc * 257 + Head(bytes) + 1)

\* a digest that reads only the first byte
getFileHashFirstByte(bytes) == Digest(SubSeq(bytes, 1, 1), 0)

getFileHash(bytes) == Digest(bytes, 0)

\* `${baseName}_${fileHash}.pdf` in CACHE_DIR
CachePath(baseName, fileHash) == <<baseName, "_", fileHash, ".pdf">>

\* `${baseName}.pdf` in CACHE_DIR: the name the tool gives its output
DefaultPath(baseName) == <<baseName, ".pdf">>

IsCacheEntry(name) == Len(name) = 4

\* the directory with file `name` written (created or overwritten)
WriteFile(files, name, rec) ==
  [n \in DOMAIN files \cup {name} |-> IF n = name THEN rec ELSE files[n]]

\* the directory without file `name`
RemoveFile(files, name) == [n \in DOMAIN files \ {name} |-> files[n]]

\* fs.renameSync(from, to): `to` is replaced if it exists
renameSync(files, from, to, rec) == WriteFile(RemoveFile(files, from), to, rec)

----------------------------------------------------------------------------
(* ConversionResult values and messages *)

ConversionResult(success, pdfPath, error, fromCache) ==
  [success |-> success, pdfPath |-> pdfPath, error |-> error,
   fromCache |-> fromCache]

NoResult == ConversionResult(FALSE, Undefined, Undefined, Undefined)

\* the message of tryIframeConversion
InstallMessage ==
  << "LibreOffice not found.",
     "Desktop: Install LibreOffice for offline conversion:",
     "brew install --cask libreoffice",
     "Mobile/Android: Local file viewing not supported yet." >>

\* `Conversion failed: ${errorMessage}`
ConversionFailed(errorMessage) == << "Conversion failed: ", errorMessage >>

tryIframeConversion ==
  ConversionResult(FALSE, Undefined, InstallMessage, Undefined)

getLibreOfficePaths(pf) ==
  IF pf = "darwin" THEN
    << "/Applications/LibreOffice.app/Contents/MacOS/soffice",
       "/usr/local/bin/soffice", "soffice" >>
  ELSE IF pf = "win32" THEN
    << "C:/Program Files/LibreOffice/program/soffice.exe",
       "C:/Program Files (x86)/LibreOffice/program/soffice.exe", "soffice" >>
  ELSE
    << "/usr/bin/soffice", "/usr/bin/libreoffice", "soffice", "libreoffice" >>

----------------------------------------------------------------------------
(* The view: what contentContainer shows *)

EmptyDiv   == [cls |-> "empty", text |-> <<>>]
LoadingDiv == [cls |-> "pptx-loading", text |-> <<"Loading presentation...">>]
CanvasDiv  == [cls |-> "pptx-main-canvas", text |-> <<>>]
ErrorDiv(cls, text) == [cls |-> cls, text |-> text]

\* `result.error || 'Failed to convert presentation'`
ErrorOr(error) ==
  IF error = Undefined THEN <<"Failed to convert presentation">> ELSE error

\* pdfDoc.numPages of the document converted from `bytes`: the slide count
\* of the source is its second byte
numPages(bytes) == bytes[2]

----------------------------------------------------------------------------
(* Positions of a load *)

\* suspended inside convertPptxToPdf (in tryLibreOfficeConversion)
ConvStates == {"probe", "print", "convert"}

\* suspended inside loadPdf
PdfStates == {"getDocument", "renderPage", "renderDraw", "thumbPage",
              "thumbDraw"}

InConv(l) == lpc[l] \in ConvStates

\* the main surface: no page drawn, or <<page, own>>: page `page` drawn,
\* own telling whether from the document that is this.pdfDoc
NoPage == <<>>
Page(pageNum, own) == <<pageNum, own>>

\* the interface before onOpen: no toolbar, no thumbnails, no canvas
NoUi == [shown |-> NoPage, counter |-> <<>>, prev |-> FALSE, next |-> FALSE,
         thumbnails |-> 0, active |-> {}]

\* updateSidebarState(): the counter text and the disabled buttons
updateSidebarState(u, cur, total) ==
  [u EXCEPT !.counter = <<cur + 1, total>>,
            !.prev = (cur = 0),
            !.next = (cur >= total - 1)]

\* updateThumbnailSelection(): the thumbnail at index currentSlide, if there
\* is one, is the only active one
updateThumbnailSelection(u, cur) ==
  [u EXCEPT !.active = IF cur \in 0 .. u.thumbnails - 1 THEN {cur} ELSE {}]

InitLoads ==
  /\ lpc = [l \in Loads |-> "idle"]
  /\ lview = [l \in Loads |-> NoView]
  /\ lpath = [l \in Loads |-> Undefined]
  /\ lbytes = [l \in Loads |-> Undefined]
  /\ lhash = [l \in Loads |-> 0]
  /\ cand = [l \in Loads |-> 0]
  /\ answered = [l \in Loads |-> FALSE]
  /\ wrote = [l \in Loads |-> FALSE]
  /\ result = [l \in Loads |-> NoResult]
  /\ promise = [l \in Loads |-> "none"]
  /\ ldata = [l \in Loads |-> Undefined]
  /\ thumb = [l \in Loads |-> 0]
  /\ prior = [l \in Loads |-> NoPrior]
  /\ pathOk = [l \in Loads |-> FALSE]
  /\ converted = {}
  /\ swept = NoSweep

\* no call of convertPptxToPdf yet
InitPipeline ==
  /\ now = 0
  /\ dirExists = FALSE
  /\ cache = <<>>
  /\ InitLoads

\* the fields of a PptxView after construction
InitViews ==
  /\ layout = [v \in Views |-> FALSE]
  /\ content = [v \in Views |-> EmptyDiv]
  /\ currentSlide = [v \in Views |-> 0]
  /\ totalSlides = [v \in Views |-> 0]
  /\ zoomLevel = [v \in Views |-> 100]
  /\ pdfDoc = [v \in Views |-> Undefined]
  /\ pageCanvases = [v \in Views |-> 0]
  /\ currentPdfPath = [v \in Views |-> Undefined]
  /\ mainCanvas = [v \in Views |-> FALSE]
  /\ file = [v \in Views |-> NoLoad]
  /\ thumbs = [v \in Views |-> {}]
  /\ navRenders = [v \in Views |-> <<>>]
  /\ ui = [v \in Views |-> NoUi]
  /\ unhandled = [v \in Views |-> FALSE]

Init ==
  /\ platform \in Platforms
  /\ src = [p \in Paths |-> <<80, 1>>]
  /\ InitPipeline
  /\ InitViews

----------------------------------------------------------------------------
(* The return of convertPptxToPdf.  The promise it returns is settled by   *)
(* the step that ends the call, and the continuation of the caller runs    *)
(* before any other task: it belongs to that step.  For a view the         *)
(* continuation is loadPptxFile after `await convertPptxToPdf`, with       *)
(* loadPdf up to its `await getDocument`.  `files` is the cache directory  *)
(* as the step leaves it; `sync` tells that the call returned without      *)
(* suspending, so that contentContainer shows the loading placeholder.     *)

Resume(l, v, res, files, sync) ==
  /\ result' = [result EXCEPT ![l] = res]
  /\ promise' = [promise EXCEPT ![l] = "fulfilled"]
  /\ cand' = [cand EXCEPT ![l] = 0]
  /\ wrote' = [wrote EXCEPT ![l] = FALSE]
  /\ pathOk' = [pathOk EXCEPT ![l] = res.pdfPath \in DOMAIN files]
  /\ converted' = IF res.success
                  THEN converted \cup {<<basename(lpath'[l]), lbytes'[l], res.pdfPath>>}
                  ELSE converted
  /\ IF v = NoView
     THEN /\ lpc' = [lpc EXCEPT ![l] = "idle"]
          /\ UNCHANGED <<content, currentPdfPath, ldata>>
     ELSE IF ~res.success \/ res.pdfPath = Undefined
     THEN /\ content' = [content EXCEPT ![v] =
                ErrorDiv("pptx-error pptx-install-message", ErrorOr(res.error))]
          /\ lpc' = [lpc EXCEPT ![l] = "idle"]
          /\ UNCHANGED <<currentPdfPath, ldata>>
     ELSE /\ currentPdfPath' = [currentPdfPath EXCEPT ![v] = res.pdfPath]
          /\ IF res.pdfPath \in DOMAIN files
             THEN \* fs.readFileSync(pdfPath); getDocument is pending
                  /\ ldata' = [ldata EXCEPT ![l] = files[res.pdfPath].of]
                  /\ lpc' = [lpc EXCEPT ![l] = "getDocument"]
                  /\ content' = [content EXCEPT ![v] =
                                   IF sync THEN LoadingDiv ELSE content[v]]
             ELSE \* readFileSync throws: the catch of loadPdf
                  /\ content' = [content EXCEPT ![v] =
                        ErrorDiv("pptx-error", <<"Failed to render PDF: ", "ENOENT">>)]
                  /\ lpc' = [lpc EXCEPT ![l] = "idle"]
                  /\ UNCHANGED ldata

\* convertPptxToPdf without its try/catch: the promise rejects; in a view
\* the catch of loadPptxFile shows the error
Uncaught(l, v, errorMessage, files, sync) ==
  /\ promise' = [promise EXCEPT ![l] = "rejected"]
  /\ result' = [result EXCEPT ![l] = NoResult]
  /\ cand' = [cand EXCEPT ![l] = 0]
  /\ wrote' = [wrote EXCEPT ![l] = FALSE]
  /\ pathOk' = [pathOk EXCEPT ![l] = FALSE]
  /\ content' = IF v = NoView THEN content
                ELSE [content EXCEPT ![v] = ErrorDiv("pptx-error",
                        <<"Failed to load presentation: ", errorMessage>>)]
  /\ lpc' = [lpc EXCEPT ![l] = "idle"]
  /\ UNCHANGED <<converted, currentPdfPath, ldata>>

\* the catch of convertPptxToPdf
Caught(l, v, errorMessage, files, sync) ==
  Resume(l, v,
         ConversionResult(FALSE, Undefined, ConversionFailed(errorMessage), Undefined),
         files, sync)

----------------------------------------------------------------------------
(* convertPptxToPdf and tryLibreOfficeConversion *)

\* getCachedPdf looking for the tool's default output name
getCachedPdfDefaultName(files, pptxPath, fileHash) ==
  IF DefaultPath(basename(pptxPath)) \in DOMAIN files
  THEN DefaultPath(basename(pptxPath))
  ELSE Undefined

\* getCachedPdf: the cached path if it exists, else null
getCachedPdf(files, pptxPath, fileHash) ==
  IF CachePath(basename(pptxPath), fileHash) \in DOMAIN files
  THEN CachePath(basename(pptxPath), fileHash)
  ELSE Undefined

\* tryLibreOfficeConversion issues `"${loPath}" --version` for candidate c
IssueProbe(l, c) ==
  /\ lpc' = [lpc EXCEPT ![l] = "probe"]
  /\ cand' = [cand EXCEPT ![l] = c]
  /\ wrote' = [wrote EXCEPT ![l] = FALSE]
  /\ UNCHANGED <<answered, result, promise, pathOk, ldata, converted, content,
                 currentPdfPath>>

\* the end of the loop without the fallback: `{ success: false }` is returned
LoopEndBare(l, v) ==
  /\ UNCHANGED answered
  /\ Resume(l, v, NoResult, cache, FALSE)

\* the end of the for loop over libreOfficePaths: `return { success: false }`,
\* then convertPptxToPdf returns tryIframeConversion(pptxPath)
LoopEnd(l, v) ==
  /\ UNCHANGED answered
  /\ Resume(l, v, tryIframeConversion, cache, FALSE)

\* a loop that goes on with the candidate after the next
NextCandidateSkips(l, v) ==
  IF cand[l] + 1 < Len(getLibreOfficePaths(platform))
  THEN IssueProbe(l, cand[l] + 2)
  ELSE LoopEnd(l, v)

\* `continue`, or the end of the loop body: the next candidate, if any
NextCandidate(l, v) ==
  IF cand[l] < Len(getLibreOfficePaths(platform))
  THEN IssueProbe(l, cand[l] + 1)
  ELSE LoopEnd(l, v)

\* Method 1: the print-to-file command with loPath
IssuePrint(l) ==
  /\ lpc' = [lpc EXCEPT ![l] = "print"]
  /\ answered' = [answered EXCEPT ![l] = TRUE]
  /\ wrote' = [wrote EXCEPT ![l] = FALSE]
  /\ UNCHANGED <<cand, result, promise, pathOk, ldata, converted, content,
                 currentPdfPath>>

\* Method 2: the convert-to command with the same loPath
IssueConvert(l) ==
  /\ lpc' = [lpc EXCEPT ![l] = "convert"]
  /\ wrote' = [wrote EXCEPT ![l] = FALSE]
  /\ UNCHANGED <<cand, answered, result, promise, pathOk, ldata, converted,
                 content, currentPdfPath>>

\* the inner catch without Method 2: on to the next candidate
CatchInnerSkips(l, v) == NextCandidate(l, v)

\* the inner catch (print method failed): falls through to Method 2
CatchInner(l, v) == IssueConvert(l)

\* the outer catch of the loop body: log and `continue`
CatchOuter(l, v) == NextCandidate(l, v)

\* convertPptxToPdf(pptxPath) called by v, up to its first await.
\* mkdirOk: whether fs.mkdirSync succeeds, should it be called.
convertPptxToPdf(l, v, p, mkdirOk) ==
  /\ lview' = [lview EXCEPT ![l] = v]
  /\ lpath' = [lpath EXCEPT ![l] = p]
  /\ lbytes' = [lbytes EXCEPT ![l] = src[p]]
  /\ answered' = [answered EXCEPT ![l] = FALSE]
  /\ prior' = [prior EXCEPT ![l] =
       [paths |-> { t[3] : t \in { u \in converted :
                                    u[1] = basename(p) /\ u[2] = src[p] } },
        by |-> IF src[p] # NoFile
                  /\ getCachedPdf(cache, p, getFileHash(src[p])) # Undefined
               THEN cache[getCachedPdf(cache, p, getFileHash(src[p]))].by
               ELSE Undefined]]
  /\ IF src[p] = NoFile
     THEN \* fs.readFileSync throws in getFileHash
          /\ lhash' = [lhash EXCEPT ![l] = 0]
          /\ UNCHANGED dirExists
          /\ Caught(l, v, "ENOENT", cache, TRUE)
     ELSE
       /\ lhash' = [lhash EXCEPT ![l] = getFileHash(src[p])]
       /\ IF getCachedPdf(cache, p, lhash'[l]) # Undefined
          THEN /\ UNCHANGED dirExists
               /\ Resume(l, v,
                         ConversionResult(TRUE, getCachedPdf(cache, p, lhash'[l]),
                                          Undefined, <<TRUE>>),
                         cache, TRUE)
          ELSE IF ~dirExists /\ ~mkdirOk
               THEN \* fs.mkdirSync throws in initCacheDir
                    /\ UNCHANGED dirExists
                    /\ Caught(l, v, "EACCES", cache, TRUE)
               ELSE \* no cache: tryLibreOfficeConversion probes the first loPath
                    /\ dirExists' = TRUE
                    /\ lpc' = [lpc EXCEPT ![l] = "probe"]
                    /\ cand' = [cand EXCEPT ![l] = 1]
                    /\ wrote' = [wrote EXCEPT ![l] = FALSE]
                    /\ pathOk' = [pathOk EXCEPT ![l] = FALSE]
                    /\ result' = [result EXCEPT ![l] = NoResult]
                    /\ promise' = [promise EXCEPT ![l] = "pending"]
                    /\ content' = IF v = NoView THEN content
                                  ELSE [content EXCEPT ![v] = LoadingDiv]
                    /\ UNCHANGED <<ldata, converted, currentPdfPath>>

\* convertPptxToPdf called by any caller
Call(l, p, mkdirOk) ==
  /\ lpc[l] = "idle"
  /\ convertPptxToPdf(l, NoView, p, mkdirOk)
  /\ UNCHANGED <<platform, now, src, cache, layout, currentSlide, totalSlides,
                 zoomLevel, pdfDoc, pageCanvases, thumb, swept, navVars, file>>

\* FileView sets this.file, having unloaded the file before; then
\* onLoadFile -> loadPptxFile(file)
LoadFile(l, v, p, mkdirOk) ==
  /\ lpc[l] = "idle"
  /\ file[v] = NoLoad
  /\ file' = [file EXCEPT ![v] = l]
  /\ currentSlide' = [currentSlide EXCEPT ![v] = 0]
  /\ zoomLevel' = [zoomLevel EXCEPT ![v] = 100]
  /\ UNCHANGED <<platform, now, src, cache, layout, totalSlides, pdfDoc,
                 pageCanvases, thumb, swept, navVars>>
  /\ IF ~layout[v]
     THEN \* `if (!this.contentContainer) return`
          UNCHANGED <<dirExists, lpc, lview, lpath, lbytes, lhash, cand, answered,
                      wrote, result, promise, ldata, prior, pathOk, converted,
                      content, currentPdfPath>>
     ELSE convertPptxToPdf(l, v, p, mkdirOk)

\* what the conversion steps of a load leave unchanged
ConvFrame ==
  UNCHANGED <<platform, now, src, dirExists, lview, lpath, lbytes, lhash, prior,
              layout, currentSlide, totalSlides, zoomLevel, pdfDoc,
              pageCanvases, thumb, swept, navVars, file>>

\* `await execAsync('"loPath" --version')` settles
ProbeDone(l, ok) ==
  /\ lpc[l] = "probe"
  /\ ConvFrame
  /\ UNCHANGED cache
  /\ IF ok THEN IssuePrint(l) ELSE CatchOuter(l, lview[l])

\* The tool process started by the pending command writes its output,
\* `${baseName}.pdf` in the output directory, converted from the source
\* file as it is when the tool reads it.  It does so at most once, and if
\* at all then before the command ends.
ToolWrite(l) ==
  /\ lpc[l] \in {"print", "convert"}
  /\ ~wrote[l]
  /\ wrote' = [wrote EXCEPT ![l] = TRUE]
  /\ src[lpath[l]] # NoFile
  /\ cache' = WriteFile(cache, DefaultPath(basename(lpath[l])),
                 [of |-> src[lpath[l]], by |-> Undefined, w |-> l, mtime |-> now])
  /\ ConvFrame
  /\ UNCHANGED <<lpc, cand, answered, result, promise, pathOk, ldata, converted,
                 content, currentPdfPath>>

\* the success return of either method without fs.renameSync
ConvertedNoRename(l, v) ==
  /\ UNCHANGED <<cache, answered>>
  /\ Resume(l, v,
            ConversionResult(TRUE, CachePath(basename(lpath[l]), lhash[l]),
                             Undefined, <<FALSE>>),
            cache, FALSE)

\* the success return of either method, after fs.renameSync
Converted(l, v) ==
  /\ UNCHANGED answered
  /\ cache' = renameSync(cache, DefaultPath(basename(lpath[l])),
                 CachePath(basename(lpath[l]), lhash[l]),
                 [cache[DefaultPath(basename(lpath[l]))] EXCEPT !.by = lbytes[l]])
  /\ Resume(l, v,
            ConversionResult(TRUE, CachePath(basename(lpath[l]), lhash[l]),
                             Undefined, <<FALSE>>),
            cache', FALSE)

\* `await execAsync(printCommand, {timeout: 90000})` settles.
\* resolved: the command exited with status 0; otherwise it failed or timed
\* out and execAsync rejects.  renameOk: whether fs.renameSync succeeds.
PrintDone(l, resolved, renameOk) ==
  /\ lpc[l] = "print"
  /\ ConvFrame
  /\ IF resolved /\ DefaultPath(basename(lpath[l])) \in DOMAIN cache /\ renameOk
     THEN Converted(l, lview[l])
     ELSE /\ UNCHANGED cache
          /\ IF resolved /\ DefaultPath(basename(lpath[l])) \notin DOMAIN cache
             THEN \* no output: past the try block, on to Method 2
                  IssueConvert(l)
             ELSE CatchInner(l, lview[l])

\* `await execAsync(command, {timeout: 90000})` of Method 2 settles
ConvertDone(l, resolved, renameOk) ==
  /\ lpc[l] = "convert"
  /\ ConvFrame
  /\ IF resolved /\ DefaultPath(basename(lpath[l])) \in DOMAIN cache /\ renameOk
     THEN Converted(l, lview[l])
     ELSE /\ UNCHANGED cache
          /\ IF resolved /\ DefaultPath(basename(lpath[l])) \notin DOMAIN cache
             THEN \* no output: the loop body ends, next candidate
                  NextCandidate(l, lview[l])
             ELSE CatchOuter(l, lview[l])

----------------------------------------------------------------------------
(* loadPdf after getDocument, renderSlide, createThumbnails *)

\* what the steps of loadPdf leave unchanged
PdfFrame ==
  UNCHANGED <<platform, now, src, dirExists, cache, lview, lpath, lbytes, lhash,
              cand, answered, wrote, result, promise, ldata, prior, pathOk,
              converted, layout, currentSlide, zoomLevel, currentPdfPath, swept,
              file, unhandled>>

\* The pending renderSlide calls of a view once this.pdfDoc is replaced or
\* dropped: they go on against the document they were started with.
Stale(renders) == [k \in DOMAIN renders |-> [renders[k] EXCEPT !.stale = TRUE]]

\* The pending renderSlide calls once this.mainCanvas is replaced: a call
\* that has taken its context draws on the canvas that was removed.
NewCanvas(renders) ==
  [k \in DOMAIN renders |->
     [renders[k] EXCEPT !.detached = @ \/ renders[k].stage = "render"]]

\* the catch of loadPdf
RenderFailed(l, v) ==
  /\ content' = [content EXCEPT ![v] =
        ErrorDiv("pptx-error", <<"Failed to render PDF: ", "pdf.js error">>)]
  /\ lpc' = [lpc EXCEPT ![l] = "idle"]

\* the for loop of createThumbnails from index i on, up to its next pending
\* getPage; with pdfDoc dropped renderThumbnail returns at once and the
\* loop runs to its end.  Then updateSidebarState, and loadPdf returns.
\* clickable: the thumbnails of the container that have their listener.
ThumbnailLoop(l, v, i, canvases, clickable, u) ==
  /\ IF i < totalSlides'[v]
     THEN IF pdfDoc'[v] # Undefined
          THEN /\ pageCanvases' = [pageCanvases EXCEPT ![v] = canvases + 1]
               /\ thumbs' = [thumbs EXCEPT ![v] = clickable]
               /\ thumb' = [thumb EXCEPT ![l] = i]
               /\ lpc' = [lpc EXCEPT ![l] = "thumbPage"]
               /\ ui' = [ui EXCEPT ![v] =
                     [u EXCEPT !.thumbnails = @ + 1,
                               !.active = IF i = currentSlide[v]
                                          THEN @ \cup {u.thumbnails} ELSE @]]
          ELSE /\ pageCanvases' = [pageCanvases EXCEPT ![v] =
                                     canvases + (totalSlides'[v] - i)]
               /\ thumbs' = [thumbs EXCEPT ![v] =
                               clickable \cup (i .. totalSlides'[v] - 1)]
               /\ thumb' = [thumb EXCEPT ![l] = 0]
               /\ lpc' = [lpc EXCEPT ![l] = "idle"]
               /\ ui' = [ui EXCEPT ![v] =
                     updateSidebarState(
                       [u EXCEPT !.thumbnails = @ + (totalSlides'[v] - i),
                                 !.active = IF currentSlide[v] \in i .. totalSlides'[v] - 1
                                            THEN @ \cup {u.thumbnails + (currentSlide[v] - i)}
                                            ELSE @],
                       currentSlide[v], totalSlides'[v])]
     ELSE /\ pageCanvases' = [pageCanvases EXCEPT ![v] = canvases]
          /\ thumbs' = [thumbs EXCEPT ![v] = clickable]
          /\ thumb' = [thumb EXCEPT ![l] = 0]
          /\ lpc' = [lpc EXCEPT ![l] = "idle"]
          /\ ui' = [ui EXCEPT ![v] =
                updateSidebarState(u, currentSlide[v], totalSlides'[v])]

\* `this.pdfDoc = await getDocument(...).promise` settles
GetDocumentDone(l, ok) ==
  /\ lpc[l] = "getDocument"
  /\ PdfFrame
  /\ UNCHANGED <<pageCanvases, thumb, thumbs>>
  /\ IF ~ok THEN UNCHANGED <<mainCanvas, navRenders, ui>>
     ELSE /\ mainCanvas' = [mainCanvas EXCEPT ![lview[l]] = TRUE]
          /\ navRenders' = [navRenders EXCEPT ![lview[l]] = NewCanvas(Stale(@))]
          /\ ui' = [ui EXCEPT ![lview[l]].shown = NoPage]
  /\ IF ok
     THEN /\ pdfDoc' = [pdfDoc EXCEPT ![lview[l]] = ldata[l]]
          /\ totalSlides' = [totalSlides EXCEPT ![lview[l]] = numPages(ldata[l])]
          /\ content' = [content EXCEPT ![lview[l]] = CanvasDiv]
          \* renderSlide(0): getPage(1) is pending
          /\ lpc' = [lpc EXCEPT ![l] = "renderPage"]
     ELSE /\ UNCHANGED <<pdfDoc, totalSlides>>
          /\ RenderFailed(l, lview[l])

\* `await this.pdfDoc.getPage(pageNum + 1)` of renderSlide(0) settles
RenderPageDone(l, ok) ==
  /\ lpc[l] = "renderPage"
  /\ PdfFrame
  /\ UNCHANGED <<pdfDoc, totalSlides, pageCanvases, thumb, thumbs, mainCanvas,
                 navRenders>>
  /\ IF ok
     THEN /\ lpc' = [lpc EXCEPT ![l] = "renderDraw"]
          \* setting the width of the canvas clears it
          /\ ui' = [ui EXCEPT ![lview[l]].shown = NoPage]
          /\ UNCHANGED content
     ELSE /\ UNCHANGED ui
          /\ RenderFailed(l, lview[l])

\* `await page.render(...).promise` of renderSlide(0) settles; then
\* createThumbnails starts
RenderDrawDone(l, ok) ==
  /\ lpc[l] = "renderDraw"
  /\ PdfFrame
  /\ UNCHANGED <<pdfDoc, totalSlides, mainCanvas, navRenders>>
  /\ IF ok
     THEN /\ UNCHANGED content
          /\ LET v == lview[l]
                 \* page 0 is drawn, of the document loadPdf had parsed
                 drawn == [ui[v] EXCEPT !.shown = Page(0, pdfDoc[v] = ldata[l])]
             IN  IF pdfDoc[v] = Undefined
                 THEN \* `if (!this.thumbnailContainer || !this.pdfDoc) return`,
                      \* then updateSidebarState()
                      /\ lpc' = [lpc EXCEPT ![l] = "idle"]
                      /\ ui' = [ui EXCEPT ![v] =
                            updateSidebarState(drawn, currentSlide[v], totalSlides[v])]
                      /\ UNCHANGED <<pageCanvases, thumb, thumbs>>
                 ELSE \* thumbnailContainer.empty(); pageCanvases = []
                      ThumbnailLoop(l, v, 0, 0, {},
                                    [drawn EXCEPT !.thumbnails = 0, !.active = {}])
     ELSE /\ UNCHANGED <<pageCanvases, thumb, thumbs, ui>>
          /\ RenderFailed(l, lview[l])

\* a renderThumbnail that returns once it has its page, its page.render
\* not awaited
ThumbPageDoneNoAwait(l, ok) ==
  /\ lpc[l] = "thumbPage"
  /\ PdfFrame
  /\ UNCHANGED <<pdfDoc, totalSlides, mainCanvas, navRenders>>
  /\ IF ok
     THEN /\ UNCHANGED content
          /\ ThumbnailLoop(l, lview[l], thumb[l] + 1, pageCanvases[lview[l]],
                           thumbs[lview[l]] \cup {thumb[l]}, ui[lview[l]])
     ELSE /\ thumb' = [thumb EXCEPT ![l] = 0]
          /\ UNCHANGED <<pageCanvases, thumbs, ui>>
          /\ RenderFailed(l, lview[l])

\* `await this.pdfDoc.getPage(pageNum + 1)` of renderThumbnail settles
ThumbPageDone(l, ok) ==
  /\ lpc[l] = "thumbPage"
  /\ PdfFrame
  /\ UNCHANGED <<pdfDoc, totalSlides, pageCanvases, thumbs, mainCanvas,
                 navRenders, ui>>
  /\ IF ok
     THEN /\ lpc' = [lpc EXCEPT ![l] = "thumbDraw"]
          /\ UNCHANGED <<content, thumb>>
     ELSE /\ thumb' = [thumb EXCEPT ![l] = 0]
          /\ RenderFailed(l, lview[l])

\* `await page.render(...).promise` of renderThumbnail settles; the loop
\* goes on with i + 1
ThumbDrawDone(l, ok) ==
  /\ lpc[l] = "thumbDraw"
  /\ PdfFrame
  /\ UNCHANGED <<pdfDoc, totalSlides, mainCanvas, navRenders>>
  /\ IF ok
     THEN /\ UNCHANGED content
          \* the listener of thumbnail i is added, the loop goes on
          /\ ThumbnailLoop(l, lview[l], thumb[l] + 1, pageCanvases[lview[l]],
                           thumbs[lview[l]] \cup {thumb[l]}, ui[lview[l]])
     ELSE /\ thumb' = [thumb EXCEPT ![l] = 0]
          /\ UNCHANGED <<pageCanvases, thumbs, ui>>
          /\ RenderFailed(l, lview[l])

\* onOpen: createLayout sets contentContainer
onOpen(v) ==
  /\ ~layout[v]
  /\ layout' = [layout EXCEPT ![v] = TRUE]
  /\ content' = [content EXCEPT ![v] = EmptyDiv]
  \* createToolbar ends with updateSidebarState()
  /\ ui' = [ui EXCEPT ![v] =
        updateSidebarState(NoUi, currentSlide[v], totalSlides[v])]
  /\ UNCHANGED <<platform, now, fsVars, convVars, converted, currentSlide,
                 totalSlides, zoomLevel, pdfDoc, pageCanvases, currentPdfPath,
                 swept, mainCanvas, thumbs, navRenders, unhandled, file>>

\* a cleanupPdf that unlinks the file, as before the cache was introduced
cleanupPdfUnlinks(files, pdfPath) ==
  IF pdfPath \in DOMAIN files THEN RemoveFile(files, pdfPath) ELSE files

\* cleanupPdf(pdfPath): the directory after the call; it only logs
cleanupPdf(files, pdfPath) == files

\* onUnloadFile / onClose: cleanup(), and this.file is dropped.
cleanup(v) ==
  /\ cache' = IF currentPdfPath[v] # Undefined
              THEN cleanupPdf(cache, currentPdfPath[v])
              ELSE cache
  /\ currentPdfPath' = [currentPdfPath EXCEPT ![v] = Undefined]
  /\ pdfDoc' = [pdfDoc EXCEPT ![v] = Undefined]
  /\ pageCanvases' = [pageCanvases EXCEPT ![v] = 0]
  /\ file' = [file EXCEPT ![v] = NoLoad]
  /\ navRenders' = [navRenders EXCEPT ![v] = Stale(@)]
  /\ UNCHANGED <<platform, now, src, dirExists, convVars, converted, layout,
                 content, currentSlide, totalSlides, zoomLevel, swept, mainCanvas,
                 thumbs, ui, unhandled>>

----------------------------------------------------------------------------
(* Navigation and zoom *)

\* zoomLevel is kept in hundredths: 0.25 is 25, the limits are 50 and 300
Min(a, b) == IF a < b THEN a ELSE b
Max(a, b) == IF a > b THEN a ELSE b

\* renderSlide(pageNum) called by `from`: it returns at once without pdfDoc
\* or mainCanvas, else its getPage is pending
renderSlide(v, pageNum, from) ==
  IF pdfDoc[v] = Undefined \/ ~mainCanvas[v]
  THEN UNCHANGED navRenders
  ELSE navRenders' = [navRenders EXCEPT ![v] =
         Append(@, [pageNum |-> pageNum, stage |-> "getPage", from |-> from,
                    stale |-> FALSE, detached |-> FALSE])]

\* room for one more pending renderSlide, should the call start one
CanRender(v) ==
  pdfDoc[v] = Undefined \/ ~mainCanvas[v] \/ Len(navRenders[v]) < MaxRenders

\* goToSlide after `await this.renderSlide(index)`, when renderSlide
\* returned at once: updateSidebarState() and updateThumbnailSelection()
\* run with the call
AfterRender(v, index) ==
  IF pdfDoc[v] = Undefined \/ ~mainCanvas[v]
  THEN ui' = [ui EXCEPT ![v] =
         updateThumbnailSelection(
           updateSidebarState(@, index, totalSlides[v]), index)]
  ELSE UNCHANGED ui

\* goToSlide without its range check
goToSlideUnchecked(v, index) ==
  /\ currentSlide' = [currentSlide EXCEPT ![v] = index]
  /\ renderSlide(v, index, "goToSlide")
  /\ AfterRender(v, index)

goToSlide(v, index) ==
  IF index >= 0 /\ index < totalSlides[v]
  THEN /\ currentSlide' = [currentSlide EXCEPT ![v] = index]
       /\ renderSlide(v, index, "goToSlide")
       /\ AfterRender(v, index)
  ELSE UNCHANGED <<currentSlide, navRenders, ui>>

previousSlide(v) ==
  IF currentSlide[v] > 0
  THEN goToSlide(v, currentSlide[v] - 1)
  ELSE UNCHANGED <<currentSlide, navRenders, ui>>

nextSlide(v) ==
  IF currentSlide[v] < totalSlides[v] - 1
  THEN goToSlide(v, currentSlide[v] + 1)
  ELSE UNCHANGED <<currentSlide, navRenders, ui>>

\* zoomLevel + 0.25 without Math.min
zoomInUnbounded(z) == z + 25

\* `Math.min(this.zoomLevel + 0.25, 3.0)`
zoomInLevel(z) == Min(z + 25, 300)

\* `Math.max(this.zoomLevel - 0.25, 0.5)`
zoomOutLevel(z) == Max(z - 25, 50)

zoomIn(v) ==
  /\ zoomLevel' = [zoomLevel EXCEPT ![v] = zoomInLevel(zoomLevel[v])]
  /\ renderSlide(v, currentSlide[v], "applyZoom")

zoomOut(v) ==
  /\ zoomLevel' = [zoomLevel EXCEPT ![v] = zoomOutLevel(zoomLevel[v])]
  /\ renderSlide(v, currentSlide[v], "applyZoom")

\* what the events of navigation and zoom leave unchanged
NavFrame ==
  UNCHANGED <<platform, now, fsVars, convVars, converted, swept, layout, content,
              totalSlides, pdfDoc, pageCanvases, currentPdfPath, mainCanvas, file,
              thumbs>>

\* keydown ArrowUp, or a click on the enabled previous button
KeyArrowUp(v) ==
  /\ layout[v]
  /\ CanRender(v)
  /\ previousSlide(v)
  /\ UNCHANGED <<zoomLevel, unhandled>>
  /\ NavFrame

\* keydown ArrowDown, or a click on the enabled next button
KeyArrowDown(v) ==
  /\ layout[v]
  /\ CanRender(v)
  /\ nextSlide(v)
  /\ UNCHANGED <<zoomLevel, unhandled>>
  /\ NavFrame

\* keydown + or =, or a click on the zoom-in button
KeyPlus(v) ==
  /\ layout[v]
  /\ CanRender(v)
  /\ zoomIn(v)
  /\ UNCHANGED <<currentSlide, ui, unhandled>>
  /\ NavFrame

\* keydown - or _, or a click on the zoom-out button
KeyMinus(v) ==
  /\ layout[v]
  /\ CanRender(v)
  /\ zoomOut(v)
  /\ UNCHANGED <<currentSlide, ui, unhandled>>
  /\ NavFrame

\* a click on the thumbnail of slide i
ThumbnailClick(v, i) ==
  /\ i \in thumbs[v]
  /\ CanRender(v)
  /\ goToSlide(v, i)
  /\ UNCHANGED <<zoomLevel, unhandled>>
  /\ NavFrame

\* goToSlide called with any index
GoTo(v, index) ==
  /\ layout[v]
  /\ CanRender(v)
  /\ goToSlide(v, index)
  /\ UNCHANGED <<zoomLevel, unhandled>>
  /\ NavFrame

\* the sequence without its k-th element
RemoveAt(seq, k) == SubSeq(seq, 1, k - 1) \o SubSeq(seq, k + 1, Len(seq))

\* `await this.pdfDoc.getPage(pageNum + 1)` of a pending renderSlide
\* settles: the canvas is sized, which clears it, and page.render starts;
\* or the call rejects, and nothing handles the rejection of goToSlide or
\* applyZoom
NavGetPageDone(v, k, ok) ==
  /\ k \in DOMAIN navRenders[v]
  /\ navRenders[v][k].stage = "getPage"
  /\ navRenders' = [navRenders EXCEPT ![v] =
        IF ok THEN [@ EXCEPT ![k].stage = "render"] ELSE RemoveAt(@, k)]
  /\ IF ok
     THEN /\ ui' = [ui EXCEPT ![v].shown = NoPage]
          /\ UNCHANGED unhandled
     ELSE /\ unhandled' = [unhandled EXCEPT ![v] = TRUE]
          /\ UNCHANGED ui
  /\ UNCHANGED <<currentSlide, zoomLevel>>
  /\ NavFrame

\* `await page.render(...).promise` of a pending renderSlide settles: the
\* page is drawn, and goToSlide goes on with updateSidebarState() and
\* updateThumbnailSelection(); or the call rejects
NavRenderDone(v, k, ok) ==
  /\ k \in DOMAIN navRenders[v]
  /\ navRenders[v][k].stage = "render"
  /\ navRenders' = [navRenders EXCEPT ![v] = RemoveAt(@, k)]
  /\ IF ok
     THEN LET r == navRenders[v][k]
              drawn == IF r.detached THEN ui[v]
                       ELSE [ui[v] EXCEPT !.shown = Page(r.pageNum, ~r.stale)]
          IN  /\ ui' = [ui EXCEPT ![v] =
                    IF r.from = "goToSlide"
                    THEN updateThumbnailSelection(
                           updateSidebarState(drawn, currentSlide[v], totalSlides[v]),
                           currentSlide[v])
                    ELSE drawn]
              /\ UNCHANGED unhandled
     ELSE /\ unhandled' = [unhandled EXCEPT ![v] = TRUE]
          /\ UNCHANGED ui
  /\ UNCHANGED <<currentSlide, zoomLevel>>
  /\ NavFrame

----------------------------------------------------------------------------
(* Cache maintenance: cleanupOldCache, clearCache *)

\* no I/O error
NoFail == [op |-> "none", at |-> <<>>]

\* an I/O error: statSync or unlinkSync throws at file `at`
Fails(files) ==
  {NoFail} \cup { [op |-> o, at |-> n] : o \in {"stat", "unlink"}, n \in DOMAIN files }

\* the orders in which readdirSync may list the files of S
RECURSIVE Orders(_)
Orders(S) ==
  IF S = {} THEN { <<>> }
  ELSE UNION { { <<n>> \o rest : rest \in Orders(S \ {n}) } : n \in S }

\* the loop of cleanupOldCache over files[i..]: the directory it leaves.
\* A throw leaves the loop (the try block encloses the whole loop).
RECURSIVE SweepLoop(_, _, _, _, _, _)
SweepLoop(files, order, i, t, maxAge, fail) ==
  IF i > Len(order) THEN files
  ELSE IF fail.op = "stat" /\ fail.at = order[i] THEN files
  ELSE IF t - files[order[i]].mtime > maxAge
       THEN IF fail.op = "unlink" /\ fail.at = order[i] THEN files
            ELSE SweepLoop(RemoveFile(files, order[i]), order, i + 1, t, maxAge, fail)
       ELSE SweepLoop(files, order, i + 1, t, maxAge, fail)

\* cleanupOldCache(daysOld): the directory it leaves
cleanupOldCache(files, daysOld, order, fail) ==
  IF ~dirExists THEN files
  ELSE SweepLoop(files, order, 1, now, daysOld * MsPerDay, fail)

\* the loop of clearCache: unlinkSync on every file, up to the first throw
RECURSIVE ClearLoop(_, _, _, _)
ClearLoop(files, order, i, fail) ==
  IF i > Len(order) THEN files
  ELSE IF fail.op = "unlink" /\ fail.at = order[i] THEN files
  ELSE ClearLoop(RemoveFile(files, order[i]), order, i + 1, fail)

clearCache(files, order, fail) ==
  IF ~dirExists THEN files ELSE ClearLoop(files, order, 1, fail)

\* stats.size of a cached file: a PDF is never empty
size(rec) == Len(rec.of) + numPages(rec.of)

\* the loop of getCacheStats: totalSize += stats.size
RECURSIVE TotalSize(_, _)
TotalSize(files, S) ==
  IF S = {} THEN 0
  ELSE LET n == CHOOSE n \in S : TRUE
       IN  size(files[n]) + TotalSize(files, S \ {n})

\* getCacheStats(); statOk: no fs.statSync throws
getCacheStats(files, statOk) ==
  IF ~dirExists \/ ~statOk
  THEN [count |-> 0, totalSize |-> 0]
  ELSE [count |-> Cardinality(DOMAIN files),
        totalSize |-> TotalSize(files, DOMAIN files)]

----------------------------------------------------------------------------
(* The plugin, the user and the clock *)

MaintFrame ==
  UNCHANGED <<platform, now, src, dirExists, convVars, viewVars>>

\* Plugin.onload: cleanupOldCache(7), then the registrations.  The catch
\* of cleanupOldCache ends every call normally, so registerView,
\* registerExtensions and addCommand always run.  swept records the
\* activation: the calls of cleanupOldCache and their threshold.
onload(order, fail) ==
  /\ cache' = cleanupOldCache(cache, 7, order, fail)
  /\ swept' = [NoSweep EXCEPT !.op = "onload", !.sweeps = 1, !.daysOld = 7,
                              !.registered = TRUE]
  /\ converted' = {}
  /\ MaintFrame

\* Plugin.onload of src/main.ts: the registrations only
onloadMain ==
  /\ swept' = [NoSweep EXCEPT !.op = "onload", !.registered = TRUE]
  /\ converted' = {}
  /\ UNCHANGED cache
  /\ MaintFrame

\* the command 'clear-pptx-cache': getCacheStats, then clearCache
ClearCommand(order, fail) ==
  /\ cache' = clearCache(cache, order, fail)
  /\ converted' = {}
  /\ MaintFrame
  /\ UNCHANGED swept

\* cleanupOldCache(daysOld) called with any threshold.  swept records
\* whether the call deleted a file no older than daysOld days and whether
\* it left a file older than that, other than the file whose statSync or
\* unlinkSync threw.
Sweep(daysOld, order, fail) ==
  /\ cache' = cleanupOldCache(cache, daysOld, order, fail)
  /\ swept' = [NoSweep EXCEPT
               !.op = "cleanupOldCache",
               !.youngDeleted = \E n \in DOMAIN cache \ DOMAIN cache' :
                                  now - cache[n].mtime <= daysOld * MsPerDay,
               !.oldRemains = \E n \in DOMAIN cache' :
                                  /\ n # fail.at
                                  /\ now - cache'[n].mtime > daysOld * MsPerDay,
               \* statSync threw, or unlinkSync threw on a file to delete
               !.errored = /\ dirExists
                           /\ \/ fail.op = "stat"
                              \/ /\ fail.op = "unlink"
                                 /\ now - cache[fail.at].mtime > daysOld * MsPerDay]
  /\ converted' = {}
  /\ MaintFrame

\* clearCache(), then getCacheStats().  swept records whether unlinkSync
\* threw, the number of files left other than the one it threw on, and
\* what getCacheStats returns.
ClearThenStats(order, fail, statOk) ==
  /\ cache' = clearCache(cache, order, fail)
  /\ swept' = [NoSweep EXCEPT
               !.op = "clearCache",
               !.errored = dirExists /\ fail.op = "unlink",
               !.left = Cardinality(DOMAIN cache' \ {fail.at}),
               !.count = getCacheStats(cache', statOk).count,
               !.totalSize = getCacheStats(cache', statOk).totalSize]
  /\ converted' = {}
  /\ MaintFrame

\* the user saves, creates or removes a source file
SetSource(p, bytes) ==
  /\ src[p] # bytes
  /\ src' = [src EXCEPT ![p] = bytes]
  /\ UNCHANGED <<platform, now, dirExists, cache, convVars, viewVars, converted,
                 swept>>

\* time passes
Advance ==
  /\ now + ElapseMs <= MaxAdvance * ElapseMs
  /\ now' = now + ElapseMs
  /\ UNCHANGED <<platform, src, dirExists, cache, convVars, viewVars, converted,
                 swept>>

----------------------------------------------------------------------------
(* Spec: the conversion pipeline, calls one after the other *)

Environment ==
  \/ \E order \in Orders(DOMAIN cache), fail \in Fails(cache) : onload(order, fail)
  \/ \E order \in Orders(DOMAIN cache), fail \in Fails(cache) :
        ClearCommand(order, fail)
  \/ \E p \in Paths, bytes \in Contents \cup {NoFile} : SetSource(p, bytes)
  \/ Advance

Pipeline(l) ==
  \/ \E ok \in BOOLEAN : ProbeDone(l, ok)
  \/ ToolWrite(l)
  \/ \E resolved \in BOOLEAN, renameOk \in BOOLEAN : PrintDone(l, resolved, renameOk)
  \/ \E resolved \in BOOLEAN, renameOk \in BOOLEAN : ConvertDone(l, resolved, renameOk)

Next ==
  \/ \E p \in Paths, mkdirOk \in BOOLEAN : Call(1, p, mkdirOk)
  \/ Pipeline(1)
  \/ Environment

Spec == Init /\ [][Next]_vars

----------------------------------------------------------------------------
(* SpecRace: calls of convertPptxToPdf in flight together, as when two     *)
(* views open files at the same time; the clock stands still and the      *)
(* source files are not edited.  The two source files share their base     *)
(* name and differ in content.                                             *)

InitRace ==
  /\ platform = "darwin"
  /\ src = [p \in Paths |-> IF p[1] = "a" THEN <<80, 1>> ELSE <<80, 2>>]
  /\ InitPipeline
  /\ InitViews

NextRace ==
  \/ \E l \in Loads, p \in Paths, mkdirOk \in BOOLEAN : Call(l, p, mkdirOk)
  \/ \E l \in Loads : Pipeline(l)
  \/ \E order \in Orders(DOMAIN cache), fail \in Fails(cache) :
        ClearCommand(order, fail)

SpecRace == InitRace /\ [][NextRace]_vars

----------------------------------------------------------------------------
(* SpecView: a view loading files through the pipeline, one load at a      *)
(* time; the files may be edited or removed between loads.                 *)

PdfSteps(l) ==
  \/ \E ok \in BOOLEAN : GetDocumentDone(l, ok)
  \/ \E ok \in BOOLEAN : RenderPageDone(l, ok)
  \/ \E ok \in BOOLEAN : RenderDrawDone(l, ok)
  \/ \E ok \in BOOLEAN : ThumbPageDone(l, ok)
  \/ \E ok \in BOOLEAN : ThumbDrawDone(l, ok)

NextView ==
  \/ \E v \in Views : onOpen(v)
  \/ \E v \in Views, p \in Paths, mkdirOk \in BOOLEAN : LoadFile(1, v, p, mkdirOk)
  \/ Pipeline(1)
  \/ PdfSteps(1)
  \/ \E v \in Views : cleanup(v)
  \/ \E p \in Paths, bytes \in Contents \cup {NoFile} : SetSource(p, bytes)

SpecView == InitRace /\ [][NextView]_vars

----------------------------------------------------------------------------
(* SpecSweep: the cache directory filled by conversions and emptied by     *)
(* cleanupOldCache and clearCache as time passes.                          *)

NextSweep ==
  \/ \E p \in Paths, mkdirOk \in BOOLEAN : Call(1, p, mkdirOk)
  \/ Pipeline(1)
  \/ \E daysOld \in SweepDays, order \in Orders(DOMAIN cache), fail \in Fails(cache) :
        Sweep(daysOld, order, fail)
  \/ \E order \in Orders(DOMAIN cache), fail \in Fails(cache) :
        ClearCommand(order, fail)
  \/ \E order \in Orders(DOMAIN cache), fail \in Fails(cache), statOk \in BOOLEAN :
        ClearThenStats(order, fail, statOk)
  \/ \E order \in Orders(DOMAIN cache), fail \in Fails(cache) : onload(order, fail)
  \/ onloadMain
  \/ Advance

SpecSweep == InitRace /\ [][NextSweep]_vars

----------------------------------------------------------------------------
(* SpecNav: a view whose files were converted by an earlier run of the     *)
(* plugin: the cache directory, which outlives the plugin, holds their     *)
(* entries, so that every load is served from the cache.  Files are        *)
(* opened one after the other; the arrow keys are pressed and thumbnails   *)
(* clicked at any time.  SpecZoom is the same view with the zoom keys.     *)

MaxPages == 2

InitWarm ==
  /\ platform = "darwin"
  /\ src = [p \in Paths |-> IF p[1] = "a" THEN <<80, 1>> ELSE <<80, 2>>]
  /\ now = 0
  /\ dirExists = TRUE
  /\ cache = [n \in { CachePath(basename(p), getFileHash(src[p])) : p \in Paths } |->
              LET p == CHOOSE p \in Paths :
                         n = CachePath(basename(p), getFileHash(src[p]))
              IN  [of |-> src[p], by |-> src[p], w |-> 1, mtime |-> 0]]
  /\ InitLoads
  /\ InitViews

RenderSteps(v) ==
  \/ \E k \in 1 .. MaxRenders, ok \in BOOLEAN : NavGetPageDone(v, k, ok)
  \/ \E k \in 1 .. MaxRenders, ok \in BOOLEAN : NavRenderDone(v, k, ok)

NavSteps(v) ==
  \/ KeyArrowUp(v)
  \/ KeyArrowDown(v)
  \/ \E i \in 0 .. MaxPages - 1 : ThumbnailClick(v, i)
  \/ RenderSteps(v)

ZoomSteps(v) ==
  \/ KeyPlus(v)
  \/ KeyMinus(v)
  \/ RenderSteps(v)

NextNav ==
  \/ \E v \in Views : onOpen(v)
  \/ \E v \in Views, p \in Paths, mkdirOk \in BOOLEAN : LoadFile(1, v, p, mkdirOk)
  \/ PdfSteps(1)
  \/ \E v \in Views : cleanup(v)
  \/ \E v \in Views : NavSteps(v)
  \/ \E v \in Views, index \in -1 .. MaxPages : GoTo(v, index)

SpecNav == InitWarm /\ [][NextNav]_vars

NextZoom ==
  \/ \E v \in Views : onOpen(v)
  \/ \E v \in Views, p \in Paths, mkdirOk \in BOOLEAN : LoadFile(1, v, p, mkdirOk)
  \/ PdfSteps(1)
  \/ \E v \in Views : cleanup(v)
  \/ \E v \in Views : ZoomSteps(v)

SpecZoom == InitWarm /\ [][NextZoom]_vars

----------------------------------------------------------------------------
(* SpecSession: a view in which a file is unloaded and another one opened  *)
(* while loads started earlier are still pending; the cache holds the      *)
(* entries of both files.                                                  *)

NextSession ==
  \/ \E v \in Views : onOpen(v)
  \/ \E l \in Loads, v \in Views, p \in Paths, mkdirOk \in BOOLEAN :
        LoadFile(l, v, p, mkdirOk)
  \/ \E l \in Loads : PdfSteps(l)
  \/ \E v \in Views : cleanup(v)

SpecSession == InitWarm /\ [][NextSession]_vars

----------------------------------------------------------------------------
(* The cache key: base name and content fingerprint *)

\* the result of a cache hit on pdfPath
CacheHit(pdfPath) == ConversionResult(TRUE, pdfPath, Undefined, <<TRUE>>)

\* C1: a call whose base name and content were converted successfully
\* before, with no sweep or clear in between, returns success with
\* fromCache true and the path of the earlier success, and never has an
\* external tool command pending.
C1_RepeatIsServedFromCache ==
  \A l \in Loads :
    prior[l].paths # {} =>
      /\ lpc[l] = "idle"
      /\ promise[l] = "fulfilled"
      /\ \E pdfPath \in prior[l].paths :
            /\ prior[l].paths = {pdfPath}
            /\ result[l] = CacheHit(pdfPath)

\* C1 witness: a repeat call has returned the entry an earlier call made
C1_Witness ==
  \E l \in Loads :
    /\ prior[l].paths # {}
    /\ result[l].fromCache = <<TRUE>>
    /\ result[l].pdfPath \in DOMAIN cache

\* C2: a call never returns, as a cache hit, an entry that was made for
\* other content than the content the call read, also when an entry of the
\* same base name and the earlier content is there.
C2_ChangedContentMissesOldEntry ==
  \A l \in Loads :
    (promise[l] = "fulfilled" /\ result[l].fromCache = <<TRUE>>) =>
      /\ prior[l].by = lbytes[l]
      /\ \A n \in DOMAIN cache :
            (IsCacheEntry(n) /\ n[1] = basename(lpath[l])
               /\ cache[n].by # lbytes[l]) => n # result[l].pdfPath

\* C2 witness: a cache hit while the entry of the same base name and of
\* other content is in the cache
C2_Witness ==
  \E l \in Loads :
    /\ promise[l] = "fulfilled"
    /\ result[l].fromCache = <<TRUE>>
    /\ \E n \in DOMAIN cache :
          /\ IsCacheEntry(n)
          /\ n[1] = basename(lpath[l])
          /\ cache[n].by # lbytes[l]

\* C3: every cache entry {baseName}_{fingerprint}.pdf holds the conversion
\* of source content whose fingerprint is the one in its name.
C3_EntryHoldsContentOfItsFingerprint ==
  \A n \in DOMAIN cache :
    IsCacheEntry(n) => getFileHash(cache[n].of) = n[3]

\* the cache path a call in flight renames its output to
outputPdfPath(l) == CachePath(basename(lpath[l]), lhash[l])

----------------------------------------------------------------------------
(* The result of convertPptxToPdf *)

\* C5: a returned result with success true carries a pdfPath, a cache
\* entry that exists at the return; one with success false carries none.
C5_SuccessCarriesExistingPath ==
  \A l \in Loads :
    promise[l] = "fulfilled" =>
      IF result[l].success
      THEN /\ result[l].pdfPath # Undefined
           /\ IsCacheEntry(result[l].pdfPath)
           /\ pathOk[l]
      ELSE result[l].pdfPath = Undefined

\* C5 witness: a conversion has returned success with the renamed output
C5_Witness ==
  \E l \in Loads :
    /\ promise[l] = "fulfilled"
    /\ result[l].success
    /\ result[l].fromCache = <<FALSE>>
    /\ pathOk[l]

----------------------------------------------------------------------------
(* The candidates and the two conversion methods *)

\* C7: when the call found no cache entry and the probe of the last
\* candidate fails with no candidate having answered, the call returns
\* success false with the installation guidance as its error, and the view
\* shows that message in its error element.
C7_NoToolShowsInstallGuidance ==
  [][\A l \in Loads :
       (lpc[l] = "probe" /\ ~answered[l] /\ lpc'[l] = "idle") =>
         /\ promise'[l] = "fulfilled"
         /\ ~result'[l].success
         /\ result'[l].pdfPath = Undefined
         /\ result'[l].error = InstallMessage
         /\ \E i \in DOMAIN InstallMessage :
               InstallMessage[i] = "Desktop: Install LibreOffice for offline conversion:"
         /\ content'[lview[l]] =
              ErrorDiv("pptx-error pptx-install-message", InstallMessage)]_vars

\* C7 witness: the load of a view has ended with the installation guidance
\* shown, no candidate having answered the probe
C7_Witness ==
  \E l \in Loads :
    /\ lview[l] \in Views
    /\ lpc[l] = "idle"
    /\ promise[l] = "fulfilled"
    /\ ~answered[l]
    /\ result[l].error = InstallMessage
    /\ content[lview[l]] = ErrorDiv("pptx-error pptx-install-message", InstallMessage)

\* C8: a call in which a candidate answered the probe and that returns
\* without success returns the conversion-failed message with the error
\* text, not the message of the missing tool.
C8_ToolFailureIsConversionFailed ==
  \A l \in Loads :
    (promise[l] = "fulfilled" /\ answered[l] /\ ~result[l].success) =>
      /\ result[l].error # Undefined
      /\ result[l].error # InstallMessage
      /\ result[l].error[1] = "Conversion failed: "

\* C9: when the print method of a candidate ends without a renamed
\* output, the next command is the convert method of the same candidate;
\* otherwise the call has returned success.
C9_PrintFailureTriesConvert ==
  [][\A l \in Loads :
       (lpc[l] = "print" /\ lpc'[l] # "print") =>
         \/ lpc'[l] = "convert" /\ cand'[l] = cand[l]
         \/ /\ promise'[l] = "fulfilled"
            /\ result'[l] = ConversionResult(TRUE, outputPdfPath(l), Undefined, <<FALSE>>)]_vars

\* C9 witness: the convert method is pending for a candidate other than
\* the last one, after its print method
C9_Witness ==
  \E l \in Loads :
    /\ lpc[l] = "convert"
    /\ answered[l]
    /\ cand[l] < Len(getLibreOfficePaths(platform))

----------------------------------------------------------------------------
(* Cache maintenance *)

\* C10: a call of cleanupOldCache(days) deletes no file whose age is at most
\* days, and leaves no file older than days, the file whose stat or unlink
\* failed set aside.
C10_SweepDeletesExactlyTheOld ==
  swept.op = "cleanupOldCache" => ~swept.youngDeleted /\ ~swept.oldRemains

\* C11: when statSync or unlinkSync throws on one file during
\* cleanupOldCache, the call still deletes every other file older than the
\* threshold.
C11_SweepErrorIsPerEntry ==
  (swept.op = "cleanupOldCache" /\ swept.errored) => ~swept.oldRemains

\* C12: after clearCache no file is left in the cache directory, the file
\* whose unlink failed set aside, and unless that failure happened
\* getCacheStats called next returns count 0 and totalSize 0.
C12_ClearLeavesNothing ==
  swept.op = "clearCache" =>
    /\ swept.left = 0
    /\ ~swept.errored => swept.count = 0 /\ swept.totalSize = 0

\* C13: an activation of the plugin calls cleanupOldCache once, with 7
\* days, and registers the view, the extensions and the commands.
C13_ActivationSweepsOnce ==
  swept.op = "onload" =>
    /\ swept.sweeps = 1
    /\ swept.daysOld = 7
    /\ swept.registered

----------------------------------------------------------------------------
(* The viewer session: C14 .. C20 *)

\* C14: whenever a view has totalSlides > 0, its currentSlide is an index
\* of a slide: 0 <= currentSlide <= totalSlides - 1.
C14_CurrentSlideInRange ==
  \A v \in Views :
    totalSlides[v] > 0 => currentSlide[v] \in 0 .. totalSlides[v] - 1

\* the zoom level after n consecutive calls of zoomIn, of zoomOut
RECURSIVE ZoomInTimes(_, _)
ZoomInTimes(z, n) == IF n = 0 THEN z ELSE ZoomInTimes(zoomInLevel(z), n - 1)

RECURSIVE ZoomOutTimes(_, _)
ZoomOutTimes(z, n) == IF n = 0 THEN z ELSE ZoomOutTimes(zoomOutLevel(z), n - 1)

\* C15: zoomLevel stays within 0.5 and 3.0, and from every reachable
\* state 20 calls of zoomIn end at 3.0 and 20 calls of zoomOut at 0.5.
C15_ZoomSaturates ==
  \A v \in Views :
    /\ zoomLevel[v] \in 50 .. 300
    /\ ZoomInTimes(zoomLevel[v], 20) = 300
    /\ ZoomOutTimes(zoomLevel[v], 20) = 50

\* zoomIn was called at 2.75 or at 3.0, and its render is pending
C15_Witness ==
  \E v \in Views :
    /\ zoomLevel[v] = 300
    /\ \E k \in DOMAIN navRenders[v] : navRenders[v][k].from = "applyZoom"

\* C16: goToSlide(totalSlides) and goToSlide(-1) change neither
\* currentSlide nor the pending renders; nextSlide on the last slide and
\* previousSlide on slide 0 leave currentSlide as it is.
C16_EdgeNavigationIsNoOp ==
  [][\A v \in Views :
       /\ (GoTo(v, totalSlides[v]) \/ GoTo(v, -1))
            => UNCHANGED <<currentSlide, navRenders>>
       /\ (KeyArrowDown(v) /\ currentSlide[v] = totalSlides[v] - 1)
            => UNCHANGED currentSlide
       /\ (KeyArrowUp(v) /\ currentSlide[v] = 0)
            => UNCHANGED currentSlide]_vars

\* navigation has brought a shown 2-slide document to its last slide, where
\* nextSlide and goToSlide(2) can be called
C16_Witness ==
  \E v \in Views :
    /\ layout[v] /\ CanRender(v)
    /\ pdfDoc[v] # Undefined /\ numPages(pdfDoc[v]) = totalSlides[v]
    /\ totalSlides[v] > 1
    /\ currentSlide[v] = totalSlides[v] - 1

\* The view has no state field.  Its state is read from what it holds: no
\* file is Empty; a file whose loadPptxFile has not returned is Loading;
\* after its return the canvas stands for Ready and an error element for
\* Failed.
SessionState(v) ==
  IF file[v] = NoLoad THEN "Empty"
  ELSE IF lpc[file[v]] # "idle" THEN "Loading"
  ELSE IF content[v] = CanvasDiv THEN "Ready"
  ELSE IF content[v] = EmptyDiv THEN "Empty"
  ELSE "Failed"

\* a key press, a toolbar click or a thumbnail click
UserEvent(v) ==
  \/ KeyArrowUp(v)
  \/ KeyArrowDown(v)
  \/ KeyPlus(v)
  \/ KeyMinus(v)
  \/ \E i \in 0 .. MaxPages - 1 : ThumbnailClick(v, i)

\* C17: outside Ready no key press, toolbar click or thumbnail click
\* changes currentSlide or starts a render.
C17_NavigationOnlyInReady ==
  [][\A v \in Views :
       (SessionState(v) # "Ready" /\ UserEvent(v))
         => UNCHANGED <<currentSlide, navRenders>>]_vars

\* C18: the step that ends an open successfully leaves the view Ready
\* with currentSlide 0, zoomLevel 1.0 and totalSlides the page count of the
\* document, whatever events arrived during the load.  (That the main
\* surface shows page 0 is the fourth part of the claim; the three parts
\* stated here are enough to refute it.)
C18_OpenEndsAtFirstSlide ==
  [][\A v \in Views :
       (SessionState(v) = "Loading" /\ SessionState(v)' = "Ready")
         => /\ currentSlide'[v] = 0
            /\ zoomLevel'[v] = 100
            /\ pdfDoc'[v] # Undefined
            /\ totalSlides'[v] = numPages(pdfDoc'[v])]_vars

\* the page renders (getPage, then page.render) pending against the
\* document that is this.pdfDoc of the view: those of goToSlide and
\* applyZoom, and the one of the load that holds the view
RenderStates == {"renderPage", "renderDraw", "thumbPage", "thumbDraw"}

RendersInFlight(v) ==
  Cardinality({ k \in DOMAIN navRenders[v] : ~navRenders[v][k].stale })
  + (IF /\ file[v] # NoLoad
        /\ lpc[file[v]] \in RenderStates
        /\ pdfDoc[v] # Undefined
     THEN 1 ELSE 0)

\* C19: at most one page render is in flight against the document of a
\* view at any time.
C19_RendersAreSerialized ==
  \A v \in Views : RendersInFlight(v) <= 1

\* a step of load l: of its conversion or of its loadPdf
LoadStep(l) == Pipeline(l) \/ PdfSteps(l)

\* C20: once another file has been opened in the view, no step of the
\* earlier load sets pdfDoc, totalSlides or currentPdfPath or adds
\* thumbnails.
C20_LateCompletionWritesNothing ==
  [][\A l \in Loads :
       (lview[l] \in Views /\ file[lview[l]] \notin {l, NoLoad} /\ LoadStep(l))
         => UNCHANGED <<pdfDoc, totalSlides, currentPdfPath, pageCanvases>>]_vars

----------------------------------------------------------------------------
(* Closing, rendering failures, the interface: C21 .. C29 *)

\* C21: a view whose file was unloaded or that was closed holds no
\* document, no thumbnail canvases and no pdf path until the next open.
C21_ClosedViewHoldsNothing ==
  \A v \in Views :
    file[v] = NoLoad =>
      /\ pdfDoc[v] = Undefined
      /\ pageCanvases[v] = 0
      /\ currentPdfPath[v] = Undefined

C23_NoUnhandledRejection ==
  \A v \in Views : ~unhandled[v]

\* C24: in a Ready view with no renderSlide pending the interface agrees
\* with currentSlide: the main canvas shows that page of the document, its
\* thumbnail is the active one, the counter reads currentSlide + 1 /
\* totalSlides, the previous button is disabled exactly on slide 0 and the
\* next button exactly on the last slide.
C24_InterfaceAgreesWhenQuiescent ==
  \A v \in Views :
    (SessionState(v) = "Ready" /\ navRenders[v] = <<>>) =>
      /\ ui[v].shown = Page(currentSlide[v], TRUE)
      /\ ui[v].active = {currentSlide[v]}
      /\ ui[v].counter = <<currentSlide[v] + 1, totalSlides[v]>>
      /\ ui[v].prev = (currentSlide[v] = 0)
      /\ ui[v].next = (currentSlide[v] = totalSlides[v] - 1)

\* C25: a Ready view, no load being in progress, has one thumbnail and one
\* thumbnail canvas per slide, and a step of zoomIn or zoomOut, or of the
\* render it starts, changes neither the thumbnails nor currentSlide nor
\* totalSlides.
C25_OneThumbnailPerSlide ==
  /\ [](\A v \in Views :
         (SessionState(v) = "Ready" /\ \A l \in Loads : lpc[l] = "idle") =>
           /\ ui[v].thumbnails = totalSlides[v]
           /\ pageCanvases[v] = totalSlides[v])
  /\ [][\A v \in Views :
          (KeyPlus(v) \/ KeyMinus(v) \/ RenderSteps(v)) =>
            /\ UNCHANGED <<pageCanvases, thumbs, currentSlide, totalSlides>>
            /\ ui'[v].thumbnails = ui[v].thumbnails]_vars

\* a step of load l that issues a command of the given kind
Issues(l, kind) ==
  /\ lpc'[l] = kind
  /\ <<lpc[l], cand[l]>> # <<lpc'[l], cand'[l]>>

\* C26: the candidates are probed in the order of the list, from the
\* first; a conversion command is issued only with the candidate whose
\* probe has just succeeded, the second method after the first with the
\* same candidate; the step in which a conversion succeeds issues no
\* further command.
C26_CandidatesInOrder ==
  [][\A l \in Loads :
       /\ Issues(l, "probe") =>
            /\ cand'[l] = IF lpc[l] = "idle" THEN 1 ELSE cand[l] + 1
            /\ cand'[l] \in DOMAIN getLibreOfficePaths(platform)
       /\ Issues(l, "print") =>
            lpc[l] = "probe" /\ cand'[l] = cand[l] /\ answered'[l]
       /\ Issues(l, "convert") =>
            lpc[l] = "print" /\ cand'[l] = cand[l] /\ answered[l]
       /\ (InConv(l) /\ result'[l] # result[l] /\ result'[l].success) =>
            lpc'[l] \notin ConvStates]_vars

\* the first candidate did not answer or did not convert, and the second
\* one, having answered, has been given the second conversion command
C26_Witness ==
  \E l \in Loads : lpc[l] = "convert" /\ cand[l] = 2

\* load l calls renderThumbnail, which asks for its page
StartsThumbnail(l) ==
  /\ lpc'[l] = "thumbPage"
  /\ lpc[l] # "thumbPage" \/ thumb'[l] # thumb[l]

\* C27: within a load, renderThumbnail(0) is called only in the step in
\* which the page.render of renderSlide(0) resolved, and
\* renderThumbnail(i + 1) only in the step in which the page.render of
\* thumbnail i resolved.
C27_ThumbnailsOneByOne ==
  [][\A l \in Loads :
       StartsThumbnail(l) =>
         IF thumb'[l] = 0
         THEN RenderDrawDone(l, TRUE)
         ELSE ThumbDrawDone(l, TRUE) /\ thumb'[l] = thumb[l] + 1]_vars

\* the second thumbnail of a document is being rendered
C27_Witness ==
  \E l \in Loads : lpc[l] = "thumbDraw" /\ thumb[l] = 1

(***************************************************************************)
(* Termination of a conversion call.  exec settles a command that has a    *)
(* timeout option when the process exits or the timeout kills it; a        *)
(* command without one settles only when the process exits by itself.      *)
(***************************************************************************)
\* the timeout option of the exec call of each kind of command
execTimeout(kind) == IF kind = "probe" THEN Undefined ELSE <<90000>>

\* the exec call of the given kind, issued by load l, settles
Settles(l, kind) ==
  \/ kind = "probe" /\ \E ok \in BOOLEAN : ProbeDone(l, ok)
  \/ kind = "print"
       /\ \E resolved \in BOOLEAN, renameOk \in BOOLEAN : PrintDone(l, resolved, renameOk)
  \/ kind = "convert"
       /\ \E resolved \in BOOLEAN, renameOk \in BOOLEAN : ConvertDone(l, resolved, renameOk)

NextCalls ==
  \/ \E p \in Paths, mkdirOk \in BOOLEAN : Call(1, p, mkdirOk)
  \/ \E kind \in ConvStates : Settles(1, kind)
  \/ ToolWrite(1)
  \/ \E p \in Paths, bytes \in Contents \cup {NoFile} : SetSource(p, bytes)

SpecCalls ==
  /\ Init
  /\ [][NextCalls]_vars
  /\ \A kind \in ConvStates :
        execTimeout(kind) # Undefined => WF_vars(Settles(1, kind))

\* C28: every call of convertPptxToPdf that started a conversion gets its
\* result: the promise it returned does not stay pending for ever.
C28_EveryCallReturns ==
  \A l \in Loads : (promise[l] = "pending") ~> (promise[l] # "pending")

----------------------------------------------------------------------------
(* Reads and the age of an entry: C29 *)

\* a call of convertPptxToPdf that finds its entry in the cache
HitCall(l, p) ==
  /\ \E mkdirOk \in BOOLEAN : Call(l, p, mkdirOk)
  /\ src[p] # NoFile
  /\ getCachedPdf(cache, p, getFileHash(src[p])) # Undefined

\* the entries, other than `but`, that the step leaves in the cache with
\* a last-modified time more than 7 days back
OldLeft(but) ==
  { n \in DOMAIN cache' \ {but} : now - cache'[n].mtime > 7 * MsPerDay }

\* a cache hit changes nothing in the cache directory, no mtime either
HitKeepsCache ==
  \A l \in Loads, p \in Paths : HitCall(l, p) => UNCHANGED <<cache, dirExists>>

\* an activation whose sweep runs into an error on no entry, or on one
\* entry, leaves no other entry older than 7 days
ActivationDeletesOld ==
  /\ \A order \in Orders(DOMAIN cache), fail \in Fails(cache) :
        onload(order, fail) => OldLeft(fail.at) = {}
  /\ onloadMain => OldLeft(NoFail.at) = {}

\* C29: a cache hit leaves the cache directory as it was, the
\* last-modified time of the entry included, and an activation of the
\* plugin leaves no entry last modified more than 7 days back, the entry
\* whose own stat or unlink failed set aside.
C29_ReadsDoNotRenewAnEntry ==
  [][HitKeepsCache /\ ActivationDeletesOld]_vars

====
